---- MODULE Spec2Model ----
(***************************************************************************)
(* RecoalInstance (src/src/instance/index.ts): request coalescing with a   *)
(* TTL result cache, a concurrency counter, per-entry expiry timers and a  *)
(* periodic pruning task.  JavaScript runs the methods to completion on    *)
(* one thread; an await on the wrapped operation is the only suspension    *)
(* point, so every method and every promise continuation is one action.    *)
(***************************************************************************)
EXTENDS Integers, Sequences, FiniteSets, TLC

\* ---------------------------------------------------------------- bounds
MaxExec == 3        \* executions and results that are alive at the same time
MaxArgs == 2        \* length of an argument list whose key is derived

\* ------------------------------------------------- constructor arguments
ttlMs == 1
maxConcurrency == 2

\* ------------------------------------------------------ argument values
\* A JavaScript argument is a number, null, undefined or a flat object; an
\* object keeps its properties in insertion order.
Num(n) == [t |-> "num", n |-> n, props |-> <<>>]
Obj(ps) == [t |-> "obj", n |-> 0, props |-> ps]
Null == [t |-> "null", n |-> 0, props |-> <<>>]
\* an object that refers to itself
Cyclic == [t |-> "cyclic", n |-> 0, props |-> <<>>]
Undefined == [t |-> "undefined", n |-> 0, props |-> <<>>]

\* fn.name of the operations that are passed to the instance; the two
\* arrow functions have an empty name.
FnName == [arrow1 |-> "", arrow2 |-> "", fetchUser |-> "fetchUser"]

\* The calls (fn, ...args) that the callers make: two operations, each with
\* one object argument; the objects are equal up to the order in which their
\* properties were inserted.
Requests ==
    { [fn |-> "arrow1", args |-> <<Obj(<< <<"a", 1>>, <<"b", 2>> >>)>>],
      [fn |-> "arrow2", args |-> <<Obj(<< <<"b", 2>>, <<"a", 1>> >>)>>] }

\* What an invocation of the operation does: throw synchronously, or hand
\* back a value or a promise.  await Promise.resolve(...) suspends the wrapper
\* for a value as it does for a promise, so the two are one behaviour.
Behaviours == {"throw", "suspend"}
\* Every execution produces its own result or error object, so that a value
\* shows which execution it came from.  An execution's number is free again
\* when nothing refers to the execution or to its result any more.
ResultOf(e) == "result" \o ToString(e)
ErrorOf(e) == "error" \o ToString(e)
MaxConcurrencyError == "Max concurrency reached"

\* ------------------------------------------------------- key derivation
\* Order of the property names under the default comparison of strings.
PropRank == [a |-> 1, b |-> 2]

RECURSIVE SortProps(_)
SortProps(ps) ==
    IF ps = <<>> THEN <<>>
    ELSE LET i == CHOOSE j \in 1..Len(ps) :
                      \A m \in 1..Len(ps) : PropRank[ps[j][1]] <= PropRank[ps[m][1]]
             rest == [m \in 1..(Len(ps) - 1) |-> IF m < i THEN ps[m] ELSE ps[m + 1]]
         IN  <<ps[i]>> \o SortProps(rest)

RECURSIVE JoinProps(_)
JoinProps(ps) ==
    IF ps = <<>> THEN ""
    ELSE "\"" \o ps[1][1] \o "\":" \o ToString(ps[1][2])
         \o (IF Len(ps) > 1 THEN "," ELSE "") \o JoinProps(Tail(ps))

\* An array item that has no JSON text (undefined) is written as null.
StringifyValue(v) ==
    IF v.t = "num" THEN ToString(v.n)
    ELSE IF v.t \in {"null", "undefined"} THEN "null"
    ELSE "{" \o JoinProps(SortProps(v.props)) \o "}"

RECURSIVE StringifyItems(_)
StringifyItems(args) ==
    IF args = <<>> THEN ""
    ELSE StringifyValue(args[1])
         \o (IF Len(args) > 1 THEN "," ELSE "") \o StringifyItems(Tail(args))

\* json-stable-stringify of the argument array
stringify(args) == "[" \o StringifyItems(args) \o "]"

\* String(v) as Array.prototype.join applies it; null and undefined are
\* joined as the empty string
ToJsString(v) ==
    IF v.t = "num" THEN ToString(v.n)
    ELSE IF v.t \in {"null", "undefined"} THEN ""
    ELSE "[object Object]"

RECURSIVE JoinArgs(_)
JoinArgs(args) ==
    IF args = <<>> THEN ""
    ELSE ToJsString(args[1])
         \o (IF Len(args) > 1 THEN "-" ELSE "") \o JoinArgs(Tail(args))

\* The custom key generators that setKeyGenerator is given.
KeyGenerators == {"joinArgs"}
NoKeyGen == "none"

customKeyGenApply(gen, functionName, args) == functionName \o ":" \o JoinArgs(args)

\* Generators that throw when they are called.
FailingGenerators == {"throwing"}
NoKey == ""

\* json-stable-stringify throws a TypeError on a circular structure.
stringifyThrows(args) == \E i \in DOMAIN args : args[i].t = "cyclic"
customKeyGenThrows(gen) == gen \in FailingGenerators

\* _createKey ends with an exception instead of a key.
createKeyThrows(gen, functionName, args) ==
    IF gen # NoKeyGen THEN customKeyGenThrows(gen) ELSE stringifyThrows(args)

KeyError(gen) ==
    IF gen # NoKeyGen THEN "generator error"
    ELSE "TypeError: Converting circular structure to JSON"

\* (variant: the custom generator is never consulted)
createKeyDefault(gen, functionName, args) == functionName \o "|" \o stringify(args)

createKey(gen, functionName, args) ==
    IF gen # NoKeyGen THEN customKeyGenApply(gen, functionName, args)
    ELSE functionName \o "|" \o stringify(args)

\* (variant: an unnamed operation is identified by the function itself)
functionNameOfIdentity(fn) == IF FnName[fn] = "" THEN fn ELSE FnName[fn]

\* Line 76: fn.name || 'anonymous'
functionNameOf(fn) == IF FnName[fn] = "" THEN "anonymous" ELSE FnName[fn]

\* The calls of a second set of callers: one named operation with two
\* different arguments, so that two keys exist under one generator.
UserRequests ==
    { [fn |-> "fetchUser", args |-> <<Num(1)>>],
      [fn |-> "fetchUser", args |-> <<Num(2)>>] }

\* The calls of callers whose arguments may not be serializable.
FailRequests ==
    { [fn |-> "arrow1", args |-> <<Obj(<< <<"a", 1>>, <<"b", 2>> >>)>>],
      [fn |-> "arrow1", args |-> <<Cyclic>>] }

AllGenerators == KeyGenerators \cup FailingGenerators \cup {NoKeyGen}
AllRequests == Requests \cup UserRequests \cup FailRequests

\* The key of every call the callers make under every generator, derived
\* once: _createKey depends on the generator, the name and the arguments only.
KeyTable ==
    [g \in AllGenerators |->
        [r \in AllRequests |->
            IF createKeyThrows(g, functionNameOf(r.fn), r.args) THEN NoKey
            ELSE createKey(g, functionNameOf(r.fn), r.args)]]

KeyOf(gen, r) == KeyTable[gen][r]
KeyThrows(gen, r) == createKeyThrows(gen, functionNameOf(r.fn), r.args)

AllKeys == {KeyOf(g, r) : g \in AllGenerators, r \in AllRequests} \ {NoKey}

\* ------------------------------------------------------------ Map helpers
MapHas(m, k) == k \in DOMAIN m
MapSet(m, k, v) == [j \in (DOMAIN m) \cup {k} |-> IF j = k THEN v ELSE m[j]]
MapDelete(m, k) == [j \in (DOMAIN m) \ {k} |-> m[j]]
EmptyMap == [j \in {} |-> 0]

\* ----------------------------------------------------------------- state
\* Time is kept relative to Date.now(): a cache entry carries its age
\* (Date.now() - timestamp) and a timer the delay that is left.  The code
\* compares ages with _ttlMs only, so ages stop counting at MaxAge.
MaxAge == ttlMs + 1

VARIABLES
    resultCache,         \* _resultCache: key -> [result, age]
    inFlightRequests,    \* _inFlightRequests: key -> the execution whose promise is stored
    currentConcurrency,  \* _currentConcurrency
    interval,            \* _interval: NoInterval (null) or the running periodic timer
    customKeyGen,        \* _customKeyGen: NoKeyGen (undefined) or a generator
    execs,               \* the promises of the async wrappers: execution -> [key, out, detached]
    callers,             \* the promises coalesce returned: those still pending, and those
                         \* that settled in the previous step
    timers,              \* the pending setTimeout expiry checks: [key, delay]
    uncaught,            \* an error escaped from a timer callback
    lastStored,          \* history: key -> age of the last store, dropped by invalidate/clear
    detachedKeys,        \* history: keys that were invalidated/cleared while an execution
                         \* of theirs was running
    consoler,            \* _console: the logging sink given to the constructor
    periodicTasks,       \* the number of periodic tasks registered with setInterval
    keyCalls,            \* key derivation on its own: the calls (functionName, args) given
    derivedKeys          \* to _createKey, and the keys it returned for them

keyVars == <<keyCalls, derivedKeys>>

vars == <<resultCache, inFlightRequests, currentConcurrency, interval, customKeyGen,
          execs, callers, timers, uncaught, lastStored, detachedKeys, consoler,
          periodicTasks, keyCalls, derivedKeys>>

NoInterval == "null"
\* The sinks: console, and one whose error method throws.
Console == "console"
ThrowingConsole == "console.error throws"
LoggerError == "logger error"
PruneTimer == "setInterval(this.prune)"
NoExec == 0
Pending == [st |-> "pending", val |-> ""]
Fulfilled(v) == [st |-> "ok", val |-> v]
Rejected(e) == [st |-> "err", val |-> e]
Caller(key, kind, e, out) == [key |-> key, kind |-> kind, exec |-> e, out |-> out]

PendingExecs == {e \in DOMAIN execs : execs[e].out.st = "pending"}
PendingOf(key) == {e \in PendingExecs : execs[e].key = key}

\* The callers that still wait for their promise.
Waiting == {c \in callers : c.out.st = "pending"}

\* Execution numbers that nothing refers to.
FreeExecs ==
    {e \in 1..MaxExec :
        /\ e \notin DOMAIN execs
        /\ \A k \in DOMAIN resultCache : resultCache[k].result # ResultOf(e)
        /\ \A c \in Waiting : c.exec # e}

\* A settled promise lives on only while the in-flight table holds it.
Reachable(ex, inFlight) ==
    [e \in {d \in DOMAIN ex : ex[d].out.st = "pending" \/ \E k \in DOMAIN inFlight : inFlight[k] = d}
        |-> ex[e]]

InitInstance ==
    /\ resultCache = EmptyMap
    /\ inFlightRequests = EmptyMap
    /\ currentConcurrency = 0
    /\ interval = NoInterval
    /\ customKeyGen = NoKeyGen
    /\ execs = EmptyMap
    /\ callers = {}
    /\ timers = {}
    /\ uncaught = FALSE
    /\ lastStored = EmptyMap
    /\ detachedKeys = {}
    /\ periodicTasks = 0

Init ==
    /\ InitInstance
    /\ consoler = Console
    /\ keyCalls = <<>>
    /\ derivedKeys = <<>>

\* --------------------------------------------------------------- coalesce
\* (variant: the in-flight check never finds an entry)
HasInFlightNever(key) == FALSE

HasInFlight(key) == MapHas(inFlightRequests, key)

\* (variant: an entry is served one millisecond longer)
WithinTTLLate(entry) == entry.age <= ttlMs + 1

\* now - cacheEntry.timestamp <= this._ttlMs
WithinTTL(entry) == entry.age <= ttlMs

HasFreshCache(key) == MapHas(resultCache, key) /\ WithinTTL(resultCache[key])

\* (variant: the concurrency check comes first)
CoalesceBranchLimitFirst(key) ==
    IF currentConcurrency >= maxConcurrency THEN "reject"
    ELSE IF MapHas(inFlightRequests, key) THEN "join"
    ELSE IF MapHas(resultCache, key) /\ resultCache[key].age <= ttlMs THEN "hit"
    ELSE "dispatch"

\* (variant: the limit is tested with > instead of >=)
AtLimitOver == currentConcurrency > maxConcurrency

\* (variant: the limit is not tested)
AtLimitNever == FALSE

AtLimit == currentConcurrency >= maxConcurrency

\* The order of the checks of lines 83-104.
CoalesceBranch(key) ==
    IF HasInFlight(key) THEN "join"
    ELSE IF HasFreshCache(key) THEN "hit"
    ELSE IF AtLimit THEN "reject"
    ELSE "dispatch"

\* 1. in flight: the stored promise is returned
CoalesceJoin(key) ==
    LET e == inFlightRequests[key] IN
    /\ callers' = Waiting \cup {Caller(key, "join", e, execs[e].out)}
    /\ UNCHANGED <<resultCache, inFlightRequests, currentConcurrency, execs>>

\* 2. cached within TTL: Promise.resolve(cacheEntry.result)
CoalesceHit(key) ==
    /\ callers' = Waiting \cup {Caller(key, "hit", NoExec, Fulfilled(resultCache[key].result))}
    /\ UNCHANGED <<resultCache, inFlightRequests, currentConcurrency, execs>>

\* 3. concurrency limit: Promise.reject(new Error('Max concurrency reached'))
CoalesceReject(key) ==
    /\ callers' = Waiting \cup {Caller(key, "reject", NoExec, Rejected(MaxConcurrencyError))}
    /\ UNCHANGED <<resultCache, inFlightRequests, currentConcurrency, execs>>

\* Lines 119-121: the catch block logs the error and throws it again; when
\* the sink's error method throws, that exception leaves the block instead.
ErrorLogged(err) == IF consoler = ThrowingConsole THEN LoggerError ELSE err

\* The async wrapper up to its first suspension.  fn is invoked inside the
\* try block: when it throws, catch and finally run before the wrapper
\* returns, i.e. before _inFlightRequests.set(key, promise); otherwise the
\* wrapper suspends at the await and the finally block runs at settlement.
CoalesceDispatch(key, beh) ==
    LET e == CHOOSE d \in FreeExecs : \A f \in FreeExecs : d <= f
        threw == beh = "throw"
        out == IF threw THEN Rejected(ErrorLogged(ErrorOf(e))) ELSE Pending
        counted == currentConcurrency + 1
        afterWrapper == IF threw THEN MapDelete(inFlightRequests, key) ELSE inFlightRequests
    IN
    /\ FreeExecs # {}
    /\ currentConcurrency' = IF threw THEN counted - 1 ELSE counted
    /\ inFlightRequests' = MapSet(afterWrapper, key, e)
    /\ execs' = MapSet(execs, e, [key |-> key, out |-> out, detached |-> FALSE])
    /\ callers' = Waiting \cup {Caller(key, "dispatch", e, out)}
    /\ UNCHANGED resultCache

\* (variant: the slot is taken before the key is derived)
CoalesceKeyFailsCounted ==
    /\ callers' = Waiting \cup {Caller(NoKey, "keyerror", NoExec,
                                        Rejected(KeyError(customKeyGen)))}
    /\ currentConcurrency' = currentConcurrency + 1
    /\ UNCHANGED <<resultCache, inFlightRequests, execs, interval, periodicTasks>>

\* Line 77 throws: the promise of the async method rejects with the
\* exception and the rest of the method does not run.
CoalesceKeyFails ==
    /\ callers' = Waiting \cup {Caller(NoKey, "keyerror", NoExec,
                                        Rejected(KeyError(customKeyGen)))}
    /\ UNCHANGED <<resultCache, inFlightRequests, currentConcurrency, execs, interval,
                   periodicTasks>>

\* (variant: a periodic task is registered on every call)
NeedsIntervalAlways == TRUE

\* Line 79: !this._interval
NeedsInterval == interval = NoInterval

Coalesce(r, beh) ==
    LET key == KeyOf(customKeyGen, r)
        branch == CoalesceBranch(key)
    IN
    /\ IF KeyThrows(customKeyGen, r)
       THEN CoalesceKeyFails
       ELSE /\ interval' = IF NeedsInterval THEN PruneTimer ELSE interval
            /\ periodicTasks' = IF NeedsInterval THEN periodicTasks + 1 ELSE periodicTasks
            /\ CASE branch = "join" -> CoalesceJoin(key)
                 [] branch = "hit" -> CoalesceHit(key)
                 [] branch = "reject" -> CoalesceReject(key)
                 [] OTHER -> CoalesceDispatch(key, beh)
    /\ UNCHANGED <<customKeyGen, timers, uncaught, lastStored, detachedKeys>>
    /\ UNCHANGED <<consoler, keyVars>>

\* ------------------------------------------------------------- settlement
\* The promises handed out for execution e settle with out.
SettleCallers(e, out) ==
    {IF c.exec = e THEN [c EXCEPT !.out = out] ELSE c : c \in Waiting}

\* (variant: the store is made for a failure too)
CacheAfterSettleAlways(key, out) ==
    MapSet(resultCache, key, [result |-> out.val, age |-> 0])

\* Line 110: the result is stored on success only.
CacheAfterSettle(key, out) ==
    IF out.st = "ok"
    THEN MapSet(resultCache, key, [result |-> out.val, age |-> 0])
    ELSE resultCache

\* Lines 111-117: the expiry check is scheduled on success only.
TimersAfterSettle(key, out) ==
    IF out.st = "ok" THEN timers \cup {[key |-> key, delay |-> ttlMs]} ELSE timers

\* Line 123, in the finally block.
FinallyInFlight(key) == MapDelete(inFlightRequests, key)

\* (variant: the finally block does not give the slot back)
FinallyConcurrencyKeep == currentConcurrency

\* Line 124, in the finally block.
FinallyConcurrency == currentConcurrency - 1

\* The continuation of the async wrapper after the await: the tail of the
\* try block or the catch block, then the finally block.
Settle(e, ok) ==
    LET key == execs[e].key
        out == IF ok THEN Fulfilled(ResultOf(e)) ELSE Rejected(ErrorLogged(ErrorOf(e)))
    IN
    /\ e \in PendingExecs
    /\ resultCache' = CacheAfterSettle(key, out)
    /\ timers' = TimersAfterSettle(key, out)
    /\ inFlightRequests' = FinallyInFlight(key)
    /\ currentConcurrency' = FinallyConcurrency
    /\ execs' = Reachable([execs EXCEPT ![e].out = out], inFlightRequests')
    /\ callers' = SettleCallers(e, out)
    /\ lastStored' = IF ok THEN MapSet(lastStored, key, 0) ELSE lastStored
    /\ UNCHANGED <<interval, customKeyGen, uncaught, detachedKeys>>
    /\ UNCHANGED <<consoler, periodicTasks, keyVars>>

\* ------------------------------------------------- the other public methods
isCoalescedKey(key) == HasInFlight(key) \/ HasFreshCache(key)

isCoalesced(r) == isCoalescedKey(KeyOf(customKeyGen, r))

SetKeyGenerator(g) ==
    /\ customKeyGen' = g
    /\ callers' = Waiting
    /\ UNCHANGED <<resultCache, inFlightRequests, currentConcurrency, interval, execs,
                   timers, uncaught, lastStored, detachedKeys>>
    /\ UNCHANGED <<consoler, periodicTasks, keyVars>>

\* (variant: the sweep removes an entry at the TTL boundary too)
PruneExpiredAtTTL(entry) == entry.age >= ttlMs

\* now - timestamp > this._ttlMs
PruneExpired(entry) == entry.age > ttlMs

\* prune() run with the given this: the instance, or whatever else the
\* caller of the function supplies; then this._resultCache is undefined and
\* the call throws before it has changed anything.
PrunedCache(thisArg) ==
    IF thisArg = "instance"
    THEN [k \in {j \in DOMAIN resultCache : ~PruneExpired(resultCache[j])} |-> resultCache[k]]
    ELSE resultCache
PruneThrows(thisArg) == thisArg # "instance"

Prune ==
    /\ resultCache' = PrunedCache("instance")
    /\ callers' = Waiting
    /\ UNCHANGED <<inFlightRequests, currentConcurrency, interval, customKeyGen, execs,
                   timers, uncaught, lastStored, detachedKeys>>
    /\ UNCHANGED <<consoler, periodicTasks, keyVars>>

\* history: the running executions of these keys have seen an
\* invalidate/clear since their dispatch
Detach(keys) ==
    [e \in DOMAIN execs |->
        IF execs[e].key \in keys /\ execs[e].out.st = "pending"
        THEN [execs[e] EXCEPT !.detached = TRUE] ELSE execs[e]]

\* (variant: invalidate leaves the result cache alone)
InvalidateCacheKeep(key) == resultCache

InvalidateCache(key) == MapDelete(resultCache, key)
InvalidateInFlight(key) == MapDelete(inFlightRequests, key)

\* When line 189 throws, the exception leaves invalidate and nothing is deleted.
Invalidate(r) ==
    LET key == KeyOf(customKeyGen, r)
        threw == KeyThrows(customKeyGen, r)
    IN
    /\ resultCache' = IF threw THEN resultCache ELSE InvalidateCache(key)
    /\ inFlightRequests' = IF threw THEN inFlightRequests ELSE InvalidateInFlight(key)
    /\ execs' = IF threw THEN execs ELSE Reachable(Detach({key}), inFlightRequests')
    /\ callers' = Waiting
    /\ lastStored' = IF threw THEN lastStored ELSE MapDelete(lastStored, key)
    /\ detachedKeys' = IF ~threw /\ PendingOf(key) # {}
                       THEN detachedKeys \cup {key} ELSE detachedKeys
    /\ UNCHANGED <<currentConcurrency, interval, customKeyGen, timers, uncaught>>
    /\ UNCHANGED <<consoler, periodicTasks, keyVars>>

\* (variant: clear() empties the result cache only)
ClearCacheOnly ==
    /\ resultCache' = EmptyMap
    /\ inFlightRequests' = inFlightRequests
    /\ execs' = Reachable(Detach(AllKeys), inFlightRequests')
    /\ callers' = Waiting
    /\ lastStored' = EmptyMap
    /\ detachedKeys' = detachedKeys \cup {execs[e].key : e \in PendingExecs}
    /\ UNCHANGED <<currentConcurrency, interval, customKeyGen, timers, uncaught>>
    /\ UNCHANGED <<consoler, periodicTasks, keyVars>>

Clear ==
    /\ resultCache' = EmptyMap
    /\ inFlightRequests' = EmptyMap
    /\ execs' = Reachable(Detach(AllKeys), inFlightRequests')
    /\ callers' = Waiting
    /\ lastStored' = EmptyMap
    /\ detachedKeys' = detachedKeys \cup {execs[e].key : e \in PendingExecs}
    /\ UNCHANGED <<currentConcurrency, interval, customKeyGen, timers, uncaught>>
    /\ UNCHANGED <<consoler, periodicTasks, keyVars>>

\* ------------------------------------------------------------ time, timers
Older(a) == IF a < MaxAge THEN a + 1 ELSE a
Sooner(d) == IF d > 0 THEN d - 1 ELSE 0

\* Date.now() advances by one.
Tick ==
    /\ resultCache' = [k \in DOMAIN resultCache |->
                          [resultCache[k] EXCEPT !.age = Older(@)]]
    /\ lastStored' = [k \in DOMAIN lastStored |-> Older(lastStored[k])]
    /\ timers' = {[t EXCEPT !.delay = Sooner(@)] : t \in timers}
    /\ callers' = Waiting
    /\ UNCHANGED <<inFlightRequests, currentConcurrency, interval, customKeyGen, execs,
                   uncaught, detachedKeys>>
    /\ UNCHANGED <<consoler, periodicTasks, keyVars>>

\* (variant: the callback deletes without looking at the age)
ExpiryDueAlways(entry) == TRUE

\* Date.now() - entry.timestamp >= this._ttlMs
ExpiryDue(entry) == entry.age >= ttlMs

\* The setTimeout callback of lines 111-117.
ExpiryTimer(t) ==
    /\ t \in timers
    /\ t.delay = 0
    /\ timers' = timers \ {t}
    /\ resultCache' = IF MapHas(resultCache, t.key) /\ ExpiryDue(resultCache[t.key])
                      THEN MapDelete(resultCache, t.key) ELSE resultCache
    /\ callers' = Waiting
    /\ UNCHANGED <<inFlightRequests, currentConcurrency, interval, customKeyGen, execs,
                   uncaught, lastStored, detachedKeys>>
    /\ UNCHANGED <<consoler, periodicTasks, keyVars>>

\* setInterval(this.prune, ...) hands the timer the method without its
\* receiver, so the timer does not call it on the instance.  The period
\* (_pruneIntervalMs) is left open: the timer fires whenever the event loop
\* runs it.
IntervalThis == "timeout"

PruneInterval ==
    /\ interval = PruneTimer
    /\ resultCache' = PrunedCache(IntervalThis)
    /\ uncaught' = (uncaught \/ PruneThrows(IntervalThis))
    /\ callers' = Waiting
    /\ UNCHANGED <<inFlightRequests, currentConcurrency, interval, customKeyGen, execs,
                   timers, lastStored, detachedKeys>>
    /\ UNCHANGED <<consoler, periodicTasks, keyVars>>

\* ---------------------------------------------------------- specification
Next ==
    \/ \E r \in Requests, beh \in Behaviours : Coalesce(r, beh)
    \/ \E e \in 1..MaxExec, ok \in BOOLEAN : Settle(e, ok)
    \/ \E r \in Requests : Invalidate(r)
    \/ Clear
    \/ Prune
    \/ \E g \in KeyGenerators : SetKeyGenerator(g)
    \/ Tick
    \/ \E t \in timers : ExpiryTimer(t)
    \/ PruneInterval

Spec == Init /\ [][Next]_vars

\* The instance used with the default generator for two different keys, in
\* a run that is shorter than _pruneIntervalMs: the periodic task is
\* registered and does not fire.
NextUsers ==
    \/ \E r \in UserRequests, beh \in Behaviours : Coalesce(r, beh)
    \/ \E e \in 1..MaxExec, ok \in BOOLEAN : Settle(e, ok)
    \/ \E r \in UserRequests : Invalidate(r)
    \/ Clear
    \/ Prune
    \/ Tick
    \/ \E t \in timers : ExpiryTimer(t)

UserSpec == Init /\ [][NextUsers]_vars

\* The instance with collaborators that fail: arguments the serializer
\* cannot write, a key generator that throws, a sink whose error method throws.
\* The run is shorter than _pruneIntervalMs, so the periodic task does not fire.
InitFaults ==
    /\ InitInstance
    /\ consoler = ThrowingConsole
    /\ keyCalls = <<>>
    /\ derivedKeys = <<>>

NextFaults ==
    \/ \E r \in FailRequests, beh \in Behaviours : Coalesce(r, beh)
    \/ \E e \in 1..MaxExec, ok \in BOOLEAN : Settle(e, ok)
    \/ \E r \in FailRequests : Invalidate(r)
    \/ Clear
    \/ Prune
    \/ \E g \in KeyGenerators \cup FailingGenerators : SetKeyGenerator(g)
    \/ Tick
    \/ \E t \in timers : ExpiryTimer(t)

FaultSpec == InitFaults /\ [][NextFaults]_vars

\* ------------------------------------------- key derivation on its own
\* The argument values and the argument lists that keys are derived for.
KeyValues ==
    { Num(1), Num(2), Null, Undefined,
      Obj(<< <<"a", 1>>, <<"b", 2>> >>), Obj(<< <<"b", 2>>, <<"a", 1>> >>),
      Obj(<< <<"a", 2>>, <<"b", 1>> >>) }

ArgLists == UNION {[1..n -> KeyValues] : n \in 0..MaxArgs}

\* A fresh instance and two calls of one operation.
InitKeys ==
    /\ InitInstance
    /\ consoler = Console
    /\ \E fn \in DOMAIN FnName, a1 \in ArgLists, a2 \in ArgLists :
           keyCalls = <<[fn |-> fn, args |-> a1], [fn |-> fn, args |-> a2]>>
    /\ derivedKeys = <<>>

\* const key = this._createKey(functionName, ...args), for both calls
CreateKey ==
    /\ derivedKeys = <<>>
    /\ derivedKeys' = [i \in 1..2 |->
                           createKey(customKeyGen, functionNameOf(keyCalls[i].fn),
                                     keyCalls[i].args)]
    /\ UNCHANGED <<resultCache, inFlightRequests, currentConcurrency, interval,
                   customKeyGen, execs, callers, timers, uncaught, lastStored,
                   detachedKeys, consoler, periodicTasks, keyCalls>>

NextKeys == CreateKey

KeySpec == InitKeys /\ [][NextKeys]_vars

\* ------------------------------------------------------------ properties
NewExecs == (DOMAIN execs') \ (DOMAIN execs)

\* C1 (as claimed): a coalesce for a key that has a running execution which
\* has seen no invalidate/clear since its dispatch does not invoke the
\* operation again and is handed that execution's promise; all promises
\* handed out for one execution settle alike.
Deduplication ==
    [][ /\ \A r \in Requests, beh \in Behaviours :
            LET key == KeyOf(customKeyGen, r)
                running == {e \in PendingOf(key) : ~execs[e].detached}
            IN  (Coalesce(r, beh) /\ running # {})
                    => /\ NewExecs = {}
                       /\ \E e \in running : Caller(key, "join", e, Pending) \in callers'
        /\ \A c1, c2 \in callers' :
            (c1.exec = c2.exec /\ c1.exec # NoExec) => c1.out = c2.out ]_vars

\* C2 (as claimed): at most one running execution per key.
MutualExclusion ==
    \A k \in AllKeys : Cardinality(PendingOf(k)) <= 1

\* C2 (amended): at most one running execution for every key that was never
\* invalidated or cleared while an execution of it was running.
MutualExclusionUndetached ==
    \A k \in AllKeys \ detachedKeys : Cardinality(PendingOf(k)) <= 1

\* A second caller has joined the running execution of such a key although
\* the concurrency limit would have allowed a dispatch.
MutualExclusionWitness ==
    \E k \in AllKeys \ detachedKeys :
        /\ Cardinality(PendingOf(k)) = 1
        /\ \E c \in Waiting : c.key = k /\ c.kind = "join"
        /\ currentConcurrency < maxConcurrency

\* C3 (as claimed): a coalesce made x after the last store of its key, with
\* no invalidate/clear in between, returns the stored result and invokes
\* nothing when x < TTL, and invokes the operation again when x > TTL.
TtlFromCompletion ==
    [][ \A r \in Requests, beh \in Behaviours :
            LET key == KeyOf(customKeyGen, r) IN
            (Coalesce(r, beh) /\ MapHas(lastStored, key))
                => /\ lastStored[key] < ttlMs
                        => /\ NewExecs = {}
                           /\ MapHas(resultCache, key)
                           /\ Caller(key, "hit", NoExec, Fulfilled(resultCache[key].result))
                                  \in callers'
                   /\ lastStored[key] > ttlMs
                        => \E e \in NewExecs : \E c \in callers' :
                               c.key = key /\ c.kind = "dispatch" /\ c.exec = e ]_vars

\* C3 (amended): ... when x > TTL the stored result is not served: the call
\* joins the promise in the in-flight table if the key has one, is rejected
\* if the concurrency limit is reached, and invokes the operation otherwise.
TtlFromCompletionOrBusy ==
    [][ \A r \in Requests, beh \in Behaviours :
            LET key == KeyOf(customKeyGen, r) IN
            (Coalesce(r, beh) /\ MapHas(lastStored, key))
                => /\ lastStored[key] < ttlMs
                        => /\ NewExecs = {}
                           /\ MapHas(resultCache, key)
                           /\ Caller(key, "hit", NoExec, Fulfilled(resultCache[key].result))
                                  \in callers'
                   /\ lastStored[key] > ttlMs
                        => /\ \A c \in callers' \ Waiting : c.kind # "hit"
                           /\ IF MapHas(inFlightRequests, key)
                              THEN /\ NewExecs = {}
                                   /\ \E c \in callers' :
                                          /\ c.key = key /\ c.kind = "join"
                                          /\ c.exec = inFlightRequests[key]
                              ELSE IF currentConcurrency >= maxConcurrency
                              THEN /\ NewExecs = {}
                                   /\ Caller(key, "reject", NoExec,
                                             Rejected(MaxConcurrencyError)) \in callers'
                              ELSE \E e \in NewExecs : \E c \in callers' :
                                       c.key = key /\ c.kind = "dispatch" /\ c.exec = e ]_vars

\* A stored result was served within TTL while, for another key, the
\* operation was invoked again after more than TTL.
TtlFromCompletionWitness ==
    /\ \E c \in callers :
           /\ c.kind = "hit"
           /\ MapHas(lastStored, c.key) /\ lastStored[c.key] < ttlMs
    /\ \E c \in Waiting :
           /\ c.kind = "dispatch"
           /\ MapHas(lastStored, c.key) /\ lastStored[c.key] > ttlMs

\* C4: when an execution fails, every promise handed out for it rejects
\* with the error of that execution, and the result cache is not written.
FailureNotCached ==
    [][ /\ \A e \in PendingExecs :
            Settle(e, FALSE)
                => /\ resultCache' = resultCache
                   /\ \A c \in Waiting :
                          c.exec = e => [c EXCEPT !.out = Rejected(ErrorOf(e))] \in callers'
        /\ \A r \in Requests :
            LET key == KeyOf(customKeyGen, r) IN
            (Coalesce(r, "throw") /\ NewExecs # {})
                => /\ resultCache' = resultCache
                   /\ \E e \in NewExecs :
                          Caller(key, "dispatch", e, Rejected(ErrorOf(e))) \in callers'
        /\ \A c \in callers' :
            (c.exec \in DOMAIN execs' /\ execs'[c.exec].out.st = "err")
                => c.out = Rejected(ErrorOf(c.exec)) ]_vars

\* The dispatching caller and a joined caller have just seen the failure of
\* their execution, and the key has no cache entry.
FailureNotCachedWitness ==
    \E c1, c2 \in callers :
        /\ c1.exec = c2.exec /\ c1.kind = "dispatch" /\ c2.kind = "join"
        /\ c1.out = Rejected(ErrorOf(c1.exec)) /\ c2.out = c1.out
        /\ ~MapHas(resultCache, c1.key)

\* C5 (as claimed): once a failed coalesce call has settled, isCoalesced is
\* false for its key and the next coalesce for the key invokes the operation.
RetryAfterFailure ==
    \A c \in callers :
        (c.kind = "dispatch" /\ c.out.st = "err")
            => /\ ~isCoalescedKey(c.key)
               /\ CoalesceBranch(c.key) \notin {"join", "hit"}

\* C6 (as claimed): the in-flight table holds no promise of an execution
\* that has settled.
InFlightNeverOutlives ==
    \A k \in DOMAIN inFlightRequests : execs[inFlightRequests[k]].out.st = "pending"

\* C7: at the concurrency limit a coalesce for a key with neither an
\* in-flight entry nor a cache entry within TTL is rejected with the
\* concurrency-limit error, invokes nothing, and leaves the counter, the
\* in-flight table and the result cache unchanged.
RejectFast ==
    [][ \A r \in Requests, beh \in Behaviours :
            LET key == KeyOf(customKeyGen, r) IN
            ( /\ Coalesce(r, beh)
              /\ currentConcurrency >= maxConcurrency
              /\ ~MapHas(inFlightRequests, key)
              /\ ~(MapHas(resultCache, key) /\ resultCache[key].age <= ttlMs) )
                => /\ Caller(key, "reject", NoExec, Rejected(MaxConcurrencyError)) \in callers'
                   /\ NewExecs = {}
                   /\ execs' = execs
                   /\ currentConcurrency' = currentConcurrency
                   /\ inFlightRequests' = inFlightRequests
                   /\ resultCache' = resultCache ]_vars

\* A call has just been rejected at the limit.
RejectFastWitness ==
    \E c \in callers :
        /\ c.kind = "reject" /\ c.out = Rejected(MaxConcurrencyError)
        /\ currentConcurrency = maxConcurrency
        /\ ~MapHas(inFlightRequests, c.key)

\* C8: the executions that are dispatched and not settled, those detached by
\* invalidate/clear included, number at most maxConcurrency.
ConcurrencyBound ==
    Cardinality(PendingExecs) <= maxConcurrency

\* The bound is reached with a detached execution among the running ones,
\* and a further call was turned away.
ConcurrencyBoundWitness ==
    /\ Cardinality(PendingExecs) = maxConcurrency
    /\ \E e \in PendingExecs : execs[e].detached /\ ~MapHas(inFlightRequests, execs[e].key)
    /\ \E c \in callers : c.kind = "reject"

\* C9 (as claimed): isCoalesced is true from the dispatch of a key's
\* execution to its settlement, true within TTL after a store, and false
\* once more than TTL has passed since the store and nothing is running.
IsCoalescedLifecycle ==
    /\ \A e \in PendingExecs : ~execs[e].detached => isCoalescedKey(execs[e].key)
    /\ \A k \in DOMAIN lastStored : lastStored[k] < ttlMs => isCoalescedKey(k)
    /\ \A k \in DOMAIN lastStored :
           (lastStored[k] > ttlMs /\ PendingOf(k) = {}) => ~isCoalescedKey(k)

\* C10: after invalidate(op, args) an immediate coalesce(op, args) takes the
\* dispatch branch when the concurrency limit allows, whether the key was
\* cached or in flight; invalidate changes no entry of another key.
InvalidateThenCoalesce ==
    [][ \A r \in Requests :
            LET key == KeyOf(customKeyGen, r) IN
            Invalidate(r)
                => /\ (currentConcurrency' < maxConcurrency)
                          => (CoalesceBranch(key))' = "dispatch"
                   /\ (currentConcurrency' >= maxConcurrency)
                          => (CoalesceBranch(key))' = "reject"
                   /\ \A j \in AllKeys \ {key} :
                          /\ MapHas(resultCache', j) = MapHas(resultCache, j)
                          /\ MapHas(resultCache, j) => resultCache'[j] = resultCache[j]
                          /\ MapHas(inFlightRequests', j) = MapHas(inFlightRequests, j)
                          /\ MapHas(inFlightRequests, j)
                                 => inFlightRequests'[j] = inFlightRequests[j] ]_vars

\* A key was invalidated while in flight and the next coalesce dispatched a
\* fresh execution beside the detached one; another key keeps its entry.
InvalidateThenCoalesceWitness ==
    \E e1, e2 \in PendingExecs :
        /\ e1 # e2 /\ execs[e1].key = execs[e2].key
        /\ execs[e1].detached /\ ~execs[e2].detached
        /\ inFlightRequests[execs[e2].key] = e2
        /\ \E j \in DOMAIN resultCache : j # execs[e1].key

\* C11: prune() removes from the result cache exactly the entries older than
\* TTL; the entries of age <= TTL, the in-flight table and the concurrency
\* counter are left as they were.
PruneExact ==
    [][ Prune
            => /\ DOMAIN resultCache'
                      = {k \in DOMAIN resultCache : resultCache[k].age <= ttlMs}
               /\ \A k \in DOMAIN resultCache' : resultCache'[k] = resultCache[k]
               /\ inFlightRequests' = inFlightRequests
               /\ execs' = execs
               /\ currentConcurrency' = currentConcurrency ]_vars

\* An entry older than TTL is gone although its expiry timer has not run,
\* an entry at the TTL boundary is kept, and an execution is in flight.
PruneExactWitness ==
    /\ \E k \in DOMAIN lastStored :
           /\ lastStored[k] > ttlMs
           /\ ~MapHas(resultCache, k)
           /\ [key |-> k, delay |-> 0] \in timers
    /\ \E j \in DOMAIN resultCache : resultCache[j].age = ttlMs
    /\ inFlightRequests # EmptyMap
    /\ currentConcurrency > 0

\* C12 (as claimed): a firing of the periodic task has the effect of prune()
\* on the instance and raises no error.
AutomaticPruning ==
    [][ PruneInterval
            => /\ resultCache' = PrunedCache("instance")
               /\ ~uncaught' ]_vars

\* C13: clear() empties the result cache and the in-flight table, leaves the
\* periodic task and the concurrency counter alone and cancels nothing: the
\* executions that were running are still running, and each gives its slot
\* back when it settles.
ClearFrame ==
    [][ /\ Clear
            => /\ resultCache' = EmptyMap
               /\ inFlightRequests' = EmptyMap
               /\ interval' = interval
               /\ currentConcurrency' = currentConcurrency
               /\ PendingExecs' = PendingExecs
               /\ \A e \in PendingExecs : execs'[e].key = execs[e].key
        /\ \A e \in PendingExecs, ok \in BOOLEAN :
            (Settle(e, ok) /\ execs[e].detached)
                => /\ currentConcurrency' = currentConcurrency - 1
                   /\ e \notin PendingExecs' ]_vars

\* Both tables are empty while the periodic task runs and two executions,
\* of different keys and both cut off from the tables, hold their slots.
ClearFrameWitness ==
    /\ resultCache = EmptyMap /\ inFlightRequests = EmptyMap
    /\ interval = PruneTimer
    /\ timers # {}
    /\ currentConcurrency = 2
    /\ \E e1, e2 \in PendingExecs :
           /\ execs[e1].key # execs[e2].key
           /\ execs[e1].detached /\ execs[e2].detached

\* Two argument values are structurally equal when they are the same
\* primitive or objects with the same properties, in whatever order.
StructEqValue(v, w) ==
    /\ v.t = w.t
    /\ v.n = w.n
    /\ {v.props[i] : i \in DOMAIN v.props} = {w.props[i] : i \in DOMAIN w.props}

StructEq(a1, a2) ==
    /\ Len(a1) = Len(a2)
    /\ \A i \in 1..Len(a1) : StructEqValue(a1[i], a2[i])

\* C14 (as claimed): under the default generator and for one operation name,
\* structurally equal argument lists derive the same key, and argument lists
\* that differ in a value or in the position of a value derive different keys.
CanonicalKey ==
    derivedKeys # <<>>
        => LET a1 == keyCalls[1].args
               a2 == keyCalls[2].args
           IN  /\ StructEq(a1, a2) => derivedKeys[1] = derivedKeys[2]
               /\ ~StructEq(a1, a2) => derivedKeys[1] # derivedKeys[2]

\* The key the documented generator returns for a request.
JoinedKeys == [r \in Requests |-> functionNameOf(r.fn) \o ":" \o JoinArgs(r.args)]
JoinedKey(r) == JoinedKeys[r]

\* isCoalesced under a custom generator looks at the key it derives.
KeyGeneratorLookup ==
    \A r \in Requests :
        customKeyGen # NoKeyGen
            => isCoalesced(r)
                   = ( \/ MapHas(inFlightRequests, JoinedKey(r))
                       \/ /\ MapHas(resultCache, JoinedKey(r))
                          /\ resultCache[JoinedKey(r)].age <= ttlMs )

KeyGeneratorStep ==
    /\ \A g \in KeyGenerators :
           SetKeyGenerator(g)
               => /\ customKeyGen' = g
                  /\ resultCache' = resultCache
                  /\ inFlightRequests' = inFlightRequests
                  /\ execs' = execs
                  /\ currentConcurrency' = currentConcurrency
    /\ \A r \in Requests :
           customKeyGen # NoKeyGen
               => /\ \A beh \in Behaviours :
                         Coalesce(r, beh)
                             => /\ \E c \in callers' : c.key = JoinedKey(r)
                                /\ \A c \in callers' \ Waiting : c.key = JoinedKey(r)
                                /\ \A j \in (DOMAIN inFlightRequests) \ {JoinedKey(r)} :
                                       /\ MapHas(inFlightRequests', j)
                                       /\ inFlightRequests'[j] = inFlightRequests[j]
                                /\ resultCache' = resultCache
                  /\ Invalidate(r)
                         => /\ resultCache' = MapDelete(resultCache, JoinedKey(r))
                            /\ inFlightRequests' = MapDelete(inFlightRequests, JoinedKey(r))
    /\ \A e \in PendingExecs, ok \in BOOLEAN :
           (execs[e].key \notin {KeyOf(customKeyGen, r) : r \in Requests} /\ Settle(e, ok))
               => /\ inFlightRequests' = MapDelete(inFlightRequests, execs[e].key)
                  /\ currentConcurrency' = currentConcurrency - 1

\* C15: setKeyGenerator(g) changes the generator and no entry; from then on
\* coalesce, isCoalesced and invalidate look at the key g derives and at no
\* other; an execution dispatched under the previous generator removes the
\* in-flight entry of the key it was dispatched with and gives back its slot.
KeyGeneratorSwitch == []KeyGeneratorLookup /\ [][KeyGeneratorStep]_vars

\* After the change: the result stored under the key of the previous
\* generator is still there, an execution dispatched under the new key is
\* in flight, and one dispatched under the previous key has settled and
\* left no in-flight entry behind.
KeyGeneratorSwitchWitness ==
    /\ customKeyGen \in KeyGenerators
    /\ \E r \in Requests :
           /\ MapHas(resultCache, KeyOf(NoKeyGen, r))
           /\ ~MapHas(inFlightRequests, KeyOf(NoKeyGen, r))
           /\ MapHas(inFlightRequests, JoinedKey(r))
           /\ execs[inFlightRequests[JoinedKey(r)]].out.st = "pending"
           /\ ~MapHas(resultCache, JoinedKey(r))
           /\ currentConcurrency = 1

\* C16 (as claimed): when an execution that was cut off by invalidate/clear
\* settles, the in-flight entry of every other running execution stays in
\* the in-flight table.
LateCleanupHarmless ==
    [][ \A a \in PendingExecs, ok \in BOOLEAN :
            (Settle(a, ok) /\ execs[a].detached)
                => \A b \in PendingExecs \ {a} :
                       ( /\ MapHas(inFlightRequests, execs[b].key)
                         /\ inFlightRequests[execs[b].key] = b )
                           => /\ MapHas(inFlightRequests', execs[b].key)
                              /\ inFlightRequests'[execs[b].key] = b ]_vars

\* C17 (as claimed): the settlement of an execution that was cut off by
\* invalidate/clear writes nothing into the result cache, so no later
\* coalesce is served the result of an execution dispatched before the
\* invalidation.
NoStaleResult ==
    [][ \A e \in PendingExecs :
            (Settle(e, TRUE) /\ execs[e].detached)
                => /\ resultCache' = resultCache
                   /\ \A k \in DOMAIN resultCache' :
                          resultCache'[k].result # ResultOf(e) ]_vars

\* The counter and the executions it counts.
SlotsExact ==
    /\ currentConcurrency = Cardinality(PendingExecs)
    /\ currentConcurrency >= 0

\* What one step does to the counter: + 1 for a dispatch that suspends, - 1
\* for a settlement, nothing for any other step (a dispatch whose operation
\* throws at once takes the slot and gives it back in the same step).
SlotsStep ==
    /\ \A r \in Requests, beh \in Behaviours :
           Coalesce(r, beh)
               => currentConcurrency'
                      = IF CoalesceBranch(KeyOf(customKeyGen, r)) = "dispatch" /\ beh = "suspend"
                        THEN currentConcurrency + 1
                        ELSE currentConcurrency
    /\ \A e \in PendingExecs, ok \in BOOLEAN :
           Settle(e, ok) => currentConcurrency' = currentConcurrency - 1
    /\ ( \/ Clear \/ Prune \/ PruneInterval \/ Tick
         \/ \E r \in Requests : Invalidate(r)
         \/ \E g \in KeyGenerators : SetKeyGenerator(g)
         \/ \E t \in timers : ExpiryTimer(t) )
           => currentConcurrency' = currentConcurrency

\* C18: the counter equals the number of executions dispatched and not yet
\* settled, is never negative, moves by one per dispatch and per settlement
\* and is left alone by every other operation.
SlotAccounting == []SlotsExact /\ [][SlotsStep]_vars

\* One slot is held by an execution that invalidate/clear cut off, while a
\* call whose operation threw at once has taken no slot with it.
SlotAccountingWitness ==
    /\ currentConcurrency = 1
    /\ \E e \in PendingExecs : execs[e].detached
    /\ \E c \in callers :
           /\ c.kind = "dispatch" /\ c.out.st = "err"
           /\ c.exec \in DOMAIN execs /\ execs[c.exec].out.st = "err"

\* C19: while the counter is at the limit, a coalesce for a key that has an
\* in-flight entry is handed the promise of that entry, and a coalesce for a
\* key cached within TTL is handed the cached value; neither starts an
\* execution, and neither is turned away with the concurrency-limit error.
LimitOnlyForDispatch ==
    [][ \A r \in UserRequests, beh \in Behaviours :
            LET key == KeyOf(customKeyGen, r) IN
            (currentConcurrency >= maxConcurrency /\ Coalesce(r, beh))
                => /\ MapHas(inFlightRequests, key)
                        => /\ Caller(key, "join", inFlightRequests[key],
                                     execs[inFlightRequests[key]].out) \in callers'
                           /\ NewExecs = {}
                           /\ \A c \in callers' \ Waiting :
                                  c.out # Rejected(MaxConcurrencyError)
                   /\ ( /\ ~MapHas(inFlightRequests, key)
                        /\ MapHas(resultCache, key)
                        /\ resultCache[key].age <= ttlMs )
                        => /\ Caller(key, "hit", NoExec,
                                     Fulfilled(resultCache[key].result)) \in callers'
                           /\ NewExecs = {}
                           /\ \A c \in callers' \ Waiting :
                                  c.out # Rejected(MaxConcurrencyError) ]_vars

\* The counter is at the limit with two executions of one key, the older
\* one cut off by invalidate; a caller has joined the newer one, which can
\* only have happened at the limit, and a call for another key has just
\* been served from the cache.
LimitOnlyForDispatchWitness ==
    /\ currentConcurrency = maxConcurrency
    /\ \E e1, e2 \in PendingExecs :
           /\ e1 # e2 /\ execs[e1].key = execs[e2].key
           /\ execs[e1].detached
           /\ MapHas(inFlightRequests, execs[e2].key)
           /\ inFlightRequests[execs[e2].key] = e2
           /\ \E c \in Waiting : c.kind = "join" /\ c.exec = e2
           /\ \E h \in callers : h.kind = "hit" /\ h.key # execs[e2].key

\* Every cache entry has its own expiry check pending, due when the entry
\* is TTL old.
OwnTimerPending ==
    \A k \in DOMAIN resultCache :
        [key |-> k,
         delay |-> IF resultCache[k].age >= ttlMs THEN 0 ELSE ttlMs - resultCache[k].age]
            \in timers

\* What a firing expiry check does: it deletes the entry of its key when
\* that entry is at least TTL old, and changes nothing when the entry is
\* younger or the key has no entry.
ExpiryStep ==
    \A t \in timers :
        ExpiryTimer(t)
            => /\ IF MapHas(resultCache, t.key) /\ resultCache[t.key].age >= ttlMs
                  THEN resultCache' = MapDelete(resultCache, t.key)
                  ELSE resultCache' = resultCache
               /\ inFlightRequests' = inFlightRequests
               /\ currentConcurrency' = currentConcurrency

\* C20: the expiry check removes its key's entry only if the entry found at
\* fire time is at least TTL old; a newer entry is left in place and has a
\* check of its own pending; on an absent key the check does nothing.
SelfExpiryGuard == []OwnTimerPending /\ [][ExpiryStep]_vars

\* The check of an earlier store is due while the key, invalidated since,
\* holds a younger entry whose own check is still to come.
SelfExpiryGuardWitness ==
    \E k \in DOMAIN resultCache :
        /\ resultCache[k].age < ttlMs
        /\ [key |-> k, delay |-> 0] \in timers
        /\ [key |-> k, delay |-> ttlMs - resultCache[k].age] \in timers
        /\ \E j \in AllKeys \ DOMAIN resultCache : [key |-> j, delay |-> 0] \in timers

\* C21 (as claimed): an entry that the read path would still serve (age <=
\* TTL, the boundary included) leaves the result cache by invalidate or
\* clear only, never by the expiry check or by prune.
ConsistentBoundary ==
    [][ \A k \in DOMAIN resultCache :
            (resultCache[k].age <= ttlMs /\ ~MapHas(resultCache', k))
                => (Clear \/ \E r \in Requests : Invalidate(r)) ]_vars

\* C22 (as claimed): no periodic task exists before the first coalesce call,
\* after every coalesce call exactly one exists, and no other operation
\* starts or stops one.
TaskState ==
    /\ periodicTasks \in {0, 1}
    /\ (periodicTasks = 1) <=> (interval = PruneTimer)

PruningTaskLifecycle ==
    /\ []TaskState
    /\ [][ IF \E r \in FailRequests, beh \in Behaviours : Coalesce(r, beh)
           THEN periodicTasks' = 1 /\ interval' = PruneTimer
           ELSE periodicTasks' = periodicTasks /\ interval' = interval ]_vars

\* C22 (amended): no periodic task exists until a coalesce call has derived
\* its key; every coalesce call that derives its key (a join, a cache hit, a
\* rejected call and a dispatch alike) leaves exactly one periodic task; a
\* coalesce call whose key derivation throws, isCoalesced, invalidate, clear,
\* prune, setKeyGenerator, settlements and timers neither start nor stop one.
TaskStep ==
    IF \E r \in FailRequests, beh \in Behaviours :
           ~KeyThrows(customKeyGen, r) /\ Coalesce(r, beh)
    THEN periodicTasks' = 1 /\ interval' = PruneTimer
    ELSE periodicTasks' = periodicTasks /\ interval' = interval

PruningTaskOnce == []TaskState /\ [][TaskStep]_vars

\* One task exists after a dispatch, a join and a rejected call at the limit.
PruningTaskOnceWitness ==
    /\ periodicTasks = 1
    /\ \E c \in callers : c.kind = "join"
    /\ \E c \in callers : c.kind = "reject"
    /\ currentConcurrency = maxConcurrency

\* C23: when the key derivation of a coalesce call throws (the default
\* serializer on arguments it cannot write, or the custom key generator), the
\* call rejects with that exception, no operation is invoked, and the
\* concurrency counter, the in-flight table and the result cache are unchanged.
KeyFailureBeforeBookkeeping ==
    [][ \A r \in FailRequests, beh \in Behaviours :
            (KeyThrows(customKeyGen, r) /\ Coalesce(r, beh))
                => /\ Caller(NoKey, "keyerror", NoExec,
                             Rejected(KeyError(customKeyGen))) \in callers'
                   /\ NewExecs = {}
                   /\ execs' = execs
                   /\ currentConcurrency' = currentConcurrency
                   /\ inFlightRequests' = inFlightRequests
                   /\ resultCache' = resultCache ]_vars

\* The serializer has thrown while an entry was in flight and a result cached.
KeyFailureBeforeBookkeepingWitness ==
    /\ customKeyGen = NoKeyGen
    /\ Caller(NoKey, "keyerror", NoExec, Rejected(KeyError(NoKeyGen))) \in callers
    /\ currentConcurrency > 0
    /\ inFlightRequests # EmptyMap
    /\ resultCache # EmptyMap

\* C24 (as claimed): with a sink whose error method throws, every failure of
\* an operation still leaves the key of the execution without an in-flight
\* entry, gives the slot back and rejects the promise of the call, whether
\* the operation fails after the await or throws synchronously.
LoggerFailureAsync ==
    \A e \in PendingExecs :
        Settle(e, FALSE)
            => /\ ~MapHas(inFlightRequests', execs[e].key)
               /\ currentConcurrency' = currentConcurrency - 1
               /\ \A c \in Waiting :
                      c.exec = e => [c EXCEPT !.out = Rejected(LoggerError)] \in callers'

LoggerFailureSync ==
    \A r \in FailRequests :
        LET key == KeyOf(customKeyGen, r) IN
        (/\ ~KeyThrows(customKeyGen, r)
         /\ CoalesceBranch(key) = "dispatch"
         /\ Coalesce(r, "throw"))
            => /\ ~MapHas(inFlightRequests', key)
               /\ currentConcurrency' = currentConcurrency
               /\ \E c \in callers' : c.kind = "dispatch" /\ c.out = Rejected(LoggerError)

LoggerFailureCleanup ==
    [][ consoler = ThrowingConsole => (LoggerFailureAsync /\ LoggerFailureSync) ]_vars

\* C25: under the default generator two different operations with the same
\* name (two unnamed operations) and structurally equal arguments derive one
\* key; a coalesce call of the one while the key of the other is in flight
\* is handed that execution's promise, and while the key of the other is
\* cached within TTL it is handed the cached result; in both cases no
\* operation is invoked.
SameName(r1, r2) ==
    /\ r1.fn # r2.fn
    /\ FnName[r1.fn] = FnName[r2.fn]
    /\ StructEq(r1.args, r2.args)

SameNameSameKey ==
    \A r1, r2 \in Requests :
        SameName(r1, r2) => KeyOf(NoKeyGen, r1) = KeyOf(NoKeyGen, r2)

SameNameStep ==
    customKeyGen = NoKeyGen =>
        \A r1, r2 \in Requests, beh \in Behaviours :
            LET k1 == KeyOf(NoKeyGen, r1) IN
            (SameName(r1, r2) /\ isCoalescedKey(k1) /\ Coalesce(r2, beh))
                => /\ NewExecs = {}
                   /\ execs' = execs
                   /\ IF HasInFlight(k1)
                      THEN Caller(k1, "join", inFlightRequests[k1],
                                  execs[inFlightRequests[k1]].out) \in callers'
                      ELSE Caller(k1, "hit", NoExec,
                                  Fulfilled(resultCache[k1].result)) \in callers'

NameNotIdentity == []SameNameSameKey /\ [][SameNameStep]_vars

\* Under the default generator one execution is running for the key the two
\* unnamed operations share, a second call has joined it, and an earlier
\* result is still in the cache.
NameNotIdentityWitness ==
    /\ customKeyGen = NoKeyGen
    /\ \E r1, r2 \in Requests :
           /\ SameName(r1, r2)
           /\ HasInFlight(KeyOf(NoKeyGen, r1))
           /\ \E c \in Waiting : c.kind = "join" /\ c.key = KeyOf(NoKeyGen, r2)
           /\ MapHas(resultCache, KeyOf(NoKeyGen, r2))
====
